---- MODULE Spec2Model ----
(***************************************************************************)
(* DelayLine (gwappa/Arduino-DelayLine): a digital delay line for a TTL    *)
(* signal on an AVR Arduino.  Two edge interrupts (onevent / offevent)     *)
(* push millisecond timestamps into a ring buffer; loop() polls the ring   *)
(* and drives the output pin; serialEvent() decodes a configuration byte.  *)
(*                                                                         *)
(* Execution contexts.  loop() and serialEvent() run in the main context   *)
(* (the Arduino core calls serialEvent() between two calls of loop());     *)
(* onevent() and offevent() are interrupt service routines: they run to    *)
(* completion and may preempt the main context between any two of its      *)
(* steps whenever the global interrupt flag is set.                        *)
(*                                                                         *)
(* Widths.  The target is an 8-bit AVR: int and unsigned int are 16 bits,  *)
(* char is signed.                                                         *)
(***************************************************************************)
EXTENDS Integers, Naturals, Sequences, FiniteSets, TLC

VARIABLES
  scheduler,      \* volatile unsigned int scheduler[BUFFER_SIZE], as the
                  \*          function from the slots that hold a nonzero
                  \*          value to that value (every other slot holds 0)
  reader,         \* volatile int reader
  writer,         \* volatile int writer
  enabled,        \* volatile bool enabled
  hasDelay,       \* volatile bool hasDelay
  latency_ms,     \* volatile unsigned int latency_ms
  outputPort,     \* the OUTPUT_PIN bit of *outputPort (TRUE = asserted)
  millis,         \* the millisecond clock behind millis()
  interrupts,     \* the global interrupt flag (cli() clears, sei() sets)
  pc,             \* position of the main context inside loop()
  scheduleUpdate, \* local of loop() (FALSE outside a pass)
  current,        \* local of loop() (0 outside a pass)
  last,           \* history: the operation that took the latest step
  log,            \* history: the slots written and not yet popped or lost
  lapped,         \* history: the writer has caught up with the reader
  applied,        \* history: the latest slot popped, with its poll time
  sent,           \* history: number of bytes read from the serial port
  received,       \* history: what Serial.read() returned to the latest call
                  \*          of serialEvent()
  edges,          \* history: number of handler calls that wrote to the ring
  loaded,         \* the value the operand being read at line 145 had when
                  \* its first byte was loaded (0 outside the two loads)
  stamped,        \* history: the clock when loop() sampled current
  discarded,      \* history: slots pending when the latest setConfig() ran,
                  \*          or -1 once an edge was handled after it
  lastEdge        \* history: polarity of the latest edge handled while
                  \*          enabled since the latest setConfig()

vars == <<scheduler, reader, writer, enabled, hasDelay, latency_ms,
          outputPort, millis, interrupts, pc, scheduleUpdate, current,
          last, log, lapped, applied, sent, received, edges, stamped, loaded,
          discarded, lastEdge>>

(***************************************************************************)
(* Bounds of the model.                                                    *)
(***************************************************************************)
MaxTicks   == 4     \* milliseconds explored from each clock base
MaxEdges   == 3     \* edges handled in delayed mode
MaxBytes   == 2     \* bytes the host sends

(***************************************************************************)
(* Program constants.                                                      *)
(***************************************************************************)
BUFFER_SIZE    == 720
DELAY_FACTOR   == 20
FLAG_ENABLE    == 32
FLAG_EXPMODE   == 16
FLAG_DELAY     == 15
FLAG_EXP       == 12
FLAG_FRAC      == 3
FLAG_EXP1      == 8
FLAG_EXP0      == 4
FLAG_FRAC1     == 2
FLAG_FRAC0     == 1
DEFAULT_CONFIG == 48
SPACE          == 32
UINT_MOD       == 65536

\* bitwise AND of two non-negative integers
RECURSIVE BitAnd(_, _)
BitAnd(a, b) ==
  IF a = 0 \/ b = 0 THEN 0
  ELSE ((a % 2) * (b % 2)) + 2 * BitAnd(a \div 2, b \div 2)

\* HasDelay testing the exponent bits only
HasDelay_expOnly(cf) == BitAnd(cf, FLAG_EXP) # 0

HasDelay(cf) == BitAnd(cf, FLAG_DELAY) # 0

GetExponent(cf) ==
  IF BitAnd(cf, FLAG_EXP) # 0
  THEN (IF BitAnd(cf, FLAG_EXP1) # 0 THEN 100 ELSE 1)
       * (IF BitAnd(cf, FLAG_EXP0) # 0 THEN 10 ELSE 1)
  ELSE 1

\* GetFraction adding the two bits up: 1, 2, 3, 4
GetFraction_sum(cf) ==
  1 + (IF BitAnd(cf, FLAG_FRAC1) # 0 THEN 2 ELSE 0)
    + (IF BitAnd(cf, FLAG_FRAC0) # 0 THEN 1 ELSE 0)

GetFraction(cf) ==
  (IF BitAnd(cf, FLAG_FRAC1) # 0 THEN 4 ELSE 1)
  * (IF BitAnd(cf, FLAG_FRAC0) # 0 THEN 2 ELSE 1)

AsLinear(cf) == BitAnd(cf, FLAG_DELAY) * DELAY_FACTOR

\* (unsigned int)millis()
TIMESTAMP == millis % UINT_MOD

\* INCREMENT with the wrap test off by one
INCREMENT_late(of) == IF of + 1 > BUFFER_SIZE THEN 0 ELSE of + 1

\* if ((++(OF)) == BUFFER_SIZE) (OF) = 0;
INCREMENT(of) == IF of + 1 = BUFFER_SIZE THEN 0 ELSE of + 1

\* WaitingForOnEvent with the parity test inverted
WaitingForOnEvent_odd(of) == of % 2 # 0

WaitingForOnEvent(of)  == of % 2 = 0
WaitingForOffEvent(of) == of % 2 # 0

\* (char)c on a target whose char is signed and 8 bits wide
AsChar(c) == IF c % 256 >= 128 THEN (c % 256) - 256 ELSE c % 256

\* the values setConfig() stores for the flag character ch
ConfigEnabled(ch) == BitAnd(ch, FLAG_ENABLE) # 0
ConfigLatency(ch) ==
  IF ~HasDelay(ch) THEN 0
  ELSE IF BitAnd(ch, FLAG_EXPMODE) # 0
       THEN (GetExponent(ch) * GetFraction(ch)) % UINT_MOD
       ELSE AsLinear(ch) % UINT_MOD

NoSlot == [t |-> -1, rise |-> FALSE, target |-> 0, poll |-> 0]

\* TurnOn clearing the bit, TurnOff leaving the port as it is
TurnOn_clear == outputPort' = FALSE
TurnOff_skip == outputPort' = outputPort

\* #define TurnOn(PORT, MASK) / TurnOff(PORT, MASK)
TurnOn  == outputPort' = TRUE
TurnOff == outputPort' = FALSE

\* the array with every slot 0, as after power-up
NoStamps == [i \in {} |-> 0]

\* scheduler[i] in the array a
At(a, i) == IF i \in DOMAIN a THEN a[i] ELSE 0

\* the array a after a[i] = v
Store(a, i, v) ==
  [j \in IF v = 0 THEN DOMAIN a \ {i} ELSE DOMAIN a \cup {i} |->
     IF j = i THEN v ELSE a[j]]

\* slots between reader (inclusive) and writer (exclusive) in ring order
Distance(r, w) == (w - r + BUFFER_SIZE) % BUFFER_SIZE

\* setConfig that forgets to reset the writer
setConfig_keepWriter(ch) ==
  /\ enabled'    = ConfigEnabled(ch)
  /\ hasDelay'   = HasDelay(ch)
  /\ latency_ms' = ConfigLatency(ch)
  /\ reader'     = 0
  /\ writer'     = writer
  /\ TurnOff
  /\ log'        = << >>
  /\ lapped'     = FALSE
  /\ applied'    = NoSlot
  /\ discarded'  = Distance(reader, writer)
  /\ lastEdge'   = "none"

\* setConfig(ch): replace the configuration, reset the cursors, turn off
setConfig(ch) ==
  /\ enabled'    = ConfigEnabled(ch)
  /\ hasDelay'   = HasDelay(ch)
  /\ latency_ms' = ConfigLatency(ch)
  /\ reader'     = 0
  /\ writer'     = 0
  /\ TurnOff
  /\ log'        = << >>
  /\ lapped'     = FALSE
  /\ applied'    = NoSlot
  /\ discarded'  = Distance(reader, writer)
  /\ lastEdge'   = "none"

(***************************************************************************)
(* The state after setup(): setConfig(DEFAULT_CONFIG), interrupts attached.*)
(***************************************************************************)
Init ==
  /\ scheduler      = NoStamps
  /\ reader         = 0
  /\ writer         = 0
  /\ enabled        = ConfigEnabled(DEFAULT_CONFIG)
  /\ hasDelay       = HasDelay(DEFAULT_CONFIG)
  /\ latency_ms     = ConfigLatency(DEFAULT_CONFIG)
  /\ outputPort     = FALSE
  /\ millis         = 0
  /\ interrupts     = TRUE
  /\ pc             = "idle"
  /\ scheduleUpdate = FALSE
  /\ current        = 0
  /\ last           = "setup"
  /\ log            = << >>
  /\ lapped         = FALSE
  /\ applied        = NoSlot
  /\ sent           = 0
  /\ received       = -1
  /\ edges          = 0
  /\ stamped        = 0
  /\ loaded         = 0
  /\ discarded      = 0
  /\ lastEdge       = "none"

(***************************************************************************)
(* Environment: the clock.  It is explored from four bases: from the start *)
(* of the program; from just below the wraparound of the 16-bit timestamp; *)
(* and from two moments of a run under flag 0x3C (enabled, exponential     *)
(* mode, 1000 ms) that are described with InitFull and InitTorn below.     *)
(***************************************************************************)
SLOW_CONFIG == 60

WrapBase == UINT_MOD - (MaxTicks \div 2)

\* the writer two slots before the end of the ring, and the clock when an
\* input that toggles once a millisecond has brought it there
FullBase == BUFFER_SIZE - 2

\* the low byte of FullBase with the high byte of 0: what line 145 compares
\* with reader when the writer goes from FullBase to 0 between the two
\* byte loads, the low byte being loaded first
TornReader == FullBase % 256

\* the clock when the slot at TornReader - 2, written at that millisecond,
\* is due
TornBase == (TornReader - 2) + ConfigLatency(SLOW_CONFIG)

Horizon  == (0 .. MaxTicks) \cup (WrapBase .. WrapBase + MaxTicks)
            \cup (FullBase .. FullBase + (MaxTicks \div 2))
            \cup (TornBase .. TornBase + MaxTicks)

envUnchanged == UNCHANGED <<scheduler, reader, writer, enabled, hasDelay,
                            latency_ms, outputPort, pc, scheduleUpdate,
                            current, last, log, lapped, applied, edges, stamped,
                            loaded,
                            discarded, lastEdge>>

\* one millisecond passes
Tick ==
  /\ millis + 1 \in Horizon
  /\ millis' = millis + 1
  /\ UNCHANGED <<interrupts, sent, received>>
  /\ envUnchanged

(***************************************************************************)
(* Edge interrupt handlers.                                                *)
(***************************************************************************)
\* Enqueue that advances the writer before it stores the target
Enqueue_preIncrement(rise, w1, w2, twice) ==
  LET target == (TIMESTAMP + latency_ms) % UINT_MOD
      entry  == [t |-> millis, rise |-> rise]
  IN  /\ edges < MaxEdges
      /\ edges' = edges + 1
      /\ scheduler' = IF twice
                      THEN Store(Store(scheduler, w1, target), w2, target)
                      ELSE Store(scheduler, w1, target)
      /\ writer' = IF twice THEN w2 ELSE w1
      /\ log'    = IF twice THEN log \o <<entry, entry>> ELSE Append(log, entry)
      /\ lapped' = (lapped \/ w1 = reader \/ (twice /\ w2 = reader))

\* the scheduler update shared by onevent() and offevent(): one write, and
\* a second one with the same target when the parity test holds after the
\* first INCREMENT (w1 and w2 are the writer after one and two INCREMENTs)
Enqueue(rise, w1, w2, twice) ==
  LET target == (TIMESTAMP + latency_ms) % UINT_MOD
      entry  == [t |-> millis, rise |-> rise]
  IN  /\ edges < MaxEdges
      /\ edges' = edges + 1
      /\ scheduler' = IF twice
                      THEN Store(Store(scheduler, writer, target), w1, target)
                      ELSE Store(scheduler, writer, target)
      /\ writer' = IF twice THEN w2 ELSE w1
      /\ log'    = IF twice THEN log \o <<entry, entry>> ELSE Append(log, entry)
      /\ lapped' = (lapped \/ w1 = reader \/ (twice /\ w2 = reader))

handlerFrame == UNCHANGED <<reader, enabled, hasDelay, latency_ms, millis,
                            interrupts, pc, scheduleUpdate, current,
                            applied, sent, received, stamped, loaded>>

\* onevent without the test of enabled
onevent_unguarded ==
  /\ interrupts
  /\ last' = "onevent"
  /\ handlerFrame
  /\ IF hasDelay
     THEN /\ Enqueue(TRUE, INCREMENT(writer), INCREMENT(INCREMENT(writer)),
                     WaitingForOnEvent(INCREMENT(writer)))
          /\ discarded' = -1
          /\ lastEdge' = "rise"
          /\ UNCHANGED outputPort
     ELSE /\ TurnOn
          /\ discarded' = -1
          /\ lastEdge' = "rise"
          /\ UNCHANGED <<scheduler, writer, log, lapped, edges>>

onevent ==
  /\ interrupts
  /\ last' = "onevent"
  /\ handlerFrame
  /\ IF ~enabled
     THEN UNCHANGED <<scheduler, writer, outputPort, log, lapped, edges,
                      discarded, lastEdge>>
     ELSE IF hasDelay
          THEN /\ Enqueue(TRUE, INCREMENT(writer), INCREMENT(INCREMENT(writer)),
                          WaitingForOnEvent(INCREMENT(writer)))
               /\ discarded' = -1
               /\ lastEdge' = "rise"
               /\ UNCHANGED outputPort
          ELSE /\ TurnOn
               /\ discarded' = -1
               /\ lastEdge' = "rise"
               /\ UNCHANGED <<scheduler, writer, log, lapped, edges>>

offevent ==
  /\ interrupts
  /\ last' = "offevent"
  /\ handlerFrame
  /\ IF ~enabled
     THEN UNCHANGED <<scheduler, writer, outputPort, log, lapped, edges,
                      discarded, lastEdge>>
     ELSE IF hasDelay
          THEN /\ Enqueue(FALSE, INCREMENT(writer), INCREMENT(INCREMENT(writer)),
                          WaitingForOffEvent(INCREMENT(writer)))
               /\ discarded' = -1
               /\ lastEdge' = "fall"
               /\ UNCHANGED outputPort
          ELSE /\ TurnOff
               /\ discarded' = -1
               /\ lastEdge' = "fall"
               /\ UNCHANGED <<scheduler, writer, log, lapped, edges>>

(***************************************************************************)
(* loop(), one action per preemption point.                                *)
(***************************************************************************)
loopFrame == UNCHANGED <<scheduler, writer, enabled, hasDelay, latency_ms,
                         millis, lapped, sent, received, edges, discarded,
                         lastEdge>>

\* lines 127-141: the mode test and the critical section cli() .. sei()
LoopBegin ==
  /\ pc = "idle"
  /\ last' = "loop"
  /\ loopFrame
  /\ UNCHANGED <<reader, outputPort, current, log, stamped, loaded>>
  /\ applied' = NoSlot
  /\ IF ~enabled \/ ~hasDelay
     THEN UNCHANGED <<interrupts, scheduleUpdate, pc>>
     ELSE /\ interrupts' = TRUE
          /\ scheduleUpdate' = (reader # writer)
          /\ pc' = IF reader # writer THEN "stamp" ELSE "idle"

\* line 142
LoopStamp ==
  /\ pc = "stamp"
  /\ last' = "loop"
  /\ loopFrame
  /\ current' = TIMESTAMP
  /\ stamped' = millis
  /\ pc' = "test"
  /\ UNCHANGED <<reader, outputPort, interrupts, scheduleUpdate, log, applied,
                 loaded>>

\* The two operands of line 145 that a handler can change, writer and
\* scheduler[reader], are 16 bits wide and volatile, and the comparison
\* reads them with the interrupts enabled: on the 8-bit target each is
\* loaded one byte at a time, and a handler can run between the two loads.
\* The value compared is then one byte of the value at the first load and
\* one byte of the value at the second, low byte first or high byte first
\* as the build orders the loads.
Torn(first, second) ==
  {(first % 256) + 256 * (second \div 256),
   (second % 256) + 256 * (first \div 256)}

\* line 145, left operand of &&: the first byte of writer is loaded
LoopLoadWriter ==
  /\ pc = "test"
  /\ last' = "loop"
  /\ loopFrame
  /\ loaded' = writer
  /\ pc' = "compare"
  /\ UNCHANGED <<reader, outputPort, interrupts, scheduleUpdate, current,
                 log, applied, stamped>>

\* line 145, left operand of &&: the second byte of writer is loaded and
\* reader != writer is evaluated
LoopTest ==
  /\ pc = "compare"
  /\ last' = "loop"
  /\ loopFrame
  /\ \E w \in Torn(loaded, writer) :
        pc' = IF reader # w THEN "due" ELSE "out"
  /\ loaded' = 0
  /\ UNCHANGED <<reader, outputPort, interrupts, scheduleUpdate, current,
                 log, applied, stamped>>

\* the comparison of line 145, right operand of &&
IsDue(slot, now) == slot <= now

\* the number of slots the ring holds for the dispatcher once it has found
\* reader # writer and is about to read scheduler[reader]
Pending == IF reader = writer THEN BUFFER_SIZE ELSE Distance(reader, writer)

\* line 145, right operand of &&: the first byte of scheduler[reader] is
\* loaded
LoopLoadSlot ==
  /\ pc = "due"
  /\ last' = "loop"
  /\ loopFrame
  /\ loaded' = At(scheduler, reader)
  /\ pc' = "pop"
  /\ UNCHANGED <<reader, outputPort, interrupts, scheduleUpdate, current,
                 log, applied, stamped>>

\* line 145, right operand of &&: the second byte of scheduler[reader] is
\* loaded and compared with current; line 147
LoopDue ==
  /\ pc = "pop"
  /\ last' = "loop"
  /\ loopFrame
  /\ UNCHANGED <<outputPort, interrupts, scheduleUpdate, current, stamped>>
  /\ loaded' = 0
  /\ \E slot \in Torn(loaded, At(scheduler, reader)) :
       IF IsDue(slot, current)
       THEN /\ reader'  = INCREMENT(reader)
            /\ applied' = [t      |-> log[Len(log) - Pending + 1].t,
                           rise   |-> log[Len(log) - Pending + 1].rise,
                           target |-> slot,
                           poll   |-> stamped]
            /\ log'     = SubSeq(log, Len(log) - Pending + 2, Len(log))
            /\ pc'      = "test"
       ELSE /\ pc' = "out"
            /\ UNCHANGED <<reader, log, applied>>

\* the two branches of lines 151-155 exchanged
LoopOut_swapped ==
  /\ pc = "out"
  /\ last' = "loop"
  /\ loopFrame
  /\ IF WaitingForOnEvent(reader) THEN TurnOn ELSE TurnOff
  /\ pc' = "idle"
  /\ scheduleUpdate' = FALSE
  /\ current' = 0
  /\ stamped' = 0
  /\ UNCHANGED <<reader, interrupts, log, applied, loaded>>

\* lines 151-155
LoopOut ==
  /\ pc = "out"
  /\ last' = "loop"
  /\ loopFrame
  /\ IF WaitingForOnEvent(reader) THEN TurnOff ELSE TurnOn
  /\ pc' = "idle"
  /\ scheduleUpdate' = FALSE    \* the locals die when loop() returns
  /\ current' = 0
  /\ stamped' = 0
  /\ UNCHANGED <<reader, interrupts, log, applied, loaded>>

(***************************************************************************)
(* serialEvent(), called from the main context between two calls of loop().*)
(* c is what Serial.read() returns: a byte, or -1 when there is none.      *)
(***************************************************************************)
\* the bytes the host sends: ' ', 'P' and 'Q' for the flags 0x00 (disabled,
\* direct), 0x30 (enabled, direct) and 0x31 (enabled, 2 ms); 'q' above the
\* documented range, decoded as 0x51 (disabled, 2 ms); and one above 0x7F
InputBytes == {32, 80, 81, 113, 200}

serialEvent(c) ==
  LET ch == AsChar(c)
  IN  /\ pc = "idle"
      /\ c >= 0 => sent < MaxBytes
      /\ sent' = IF c >= 0 THEN sent + 1 ELSE sent
      /\ received' = c
      /\ UNCHANGED <<scheduler, millis, pc, scheduleUpdate, current,
                     edges, stamped, loaded>>
      /\ IF c < 0
         THEN /\ interrupts' = FALSE
              /\ last' = "nodata"
              /\ UNCHANGED <<enabled, hasDelay, latency_ms, reader, writer,
                             outputPort, log, lapped, applied, discarded,
                             lastEdge>>
         ELSE /\ interrupts' = TRUE
              /\ IF ch >= SPACE
                 THEN /\ setConfig(AsChar(ch - SPACE))
                      /\ last' = "setConfig"
                 ELSE /\ last' = "ignored"
                      /\ UNCHANGED <<enabled, hasDelay, latency_ms, reader,
                                     writer, outputPort, log, lapped,
                                     applied, discarded, lastEdge>>

Next ==
  \/ Tick
  \/ onevent
  \/ offevent
  \/ LoopBegin
  \/ LoopStamp
  \/ LoopLoadWriter
  \/ LoopTest
  \/ LoopLoadSlot
  \/ LoopDue
  \/ LoopOut
  \/ \E c \in InputBytes \cup {-1} : serialEvent(c)

Spec == Init /\ [][Next]_vars

(***************************************************************************)
(* The delay line left alone in delayed mode: the state after setup() and  *)
(* the byte 'Q' (flag 0x31: enabled, exponential mode, 2 ms), no further   *)
(* byte from the host, the clock running for as long as a pending slot is  *)
(* not yet due, and loop() called again and again.                         *)
(***************************************************************************)
DELAYED_CONFIG == 49

InitDelayed ==
  /\ scheduler      = NoStamps
  /\ reader         = 0
  /\ writer         = 0
  /\ enabled        = ConfigEnabled(DELAYED_CONFIG)
  /\ hasDelay       = HasDelay(DELAYED_CONFIG)
  /\ latency_ms     = ConfigLatency(DELAYED_CONFIG)
  /\ outputPort     = FALSE
  /\ millis         = 0
  /\ interrupts     = TRUE
  /\ pc             = "idle"
  /\ scheduleUpdate = FALSE
  /\ current        = 0
  /\ last           = "setConfig"
  /\ log            = << >>
  /\ lapped         = FALSE
  /\ applied        = NoSlot
  /\ sent           = 1
  /\ received       = 81
  /\ edges          = 0
  /\ stamped        = 0
  /\ loaded         = 0
  /\ discarded      = 0
  /\ lastEdge       = "none"

\* one millisecond passes; the clock does not stop before every pending
\* slot is due
TickOn ==
  /\ \/ millis < MaxTicks
     \/ \E i \in 0 .. Distance(reader, writer) - 1 :
          At(scheduler, (reader + i) % BUFFER_SIZE) > TIMESTAMP
  /\ millis' = millis + 1
  /\ UNCHANGED <<interrupts, sent, received>>
  /\ envUnchanged

NextDelayed ==
  \/ TickOn
  \/ onevent
  \/ offevent
  \/ LoopBegin
  \/ LoopStamp
  \/ LoopLoadWriter
  \/ LoopTest
  \/ LoopLoadSlot
  \/ LoopDue
  \/ LoopOut

SpecDelayed ==
  /\ InitDelayed
  /\ [][NextDelayed]_vars
  /\ WF_vars(TickOn)
  /\ WF_vars(LoopBegin)
  /\ WF_vars(LoopStamp)
  /\ WF_vars(LoopLoadWriter)
  /\ WF_vars(LoopTest)
  /\ WF_vars(LoopLoadSlot)
  /\ WF_vars(LoopDue)
  /\ WF_vars(LoopOut)

(***************************************************************************)
(* The same delay line two milliseconds before the 16-bit timestamp wraps: *)
(* the state after setup(), a minute of idling and the byte 'Q'.           *)
(***************************************************************************)
InitWrap ==
  /\ scheduler      = NoStamps
  /\ reader         = 0
  /\ writer         = 0
  /\ enabled        = ConfigEnabled(DELAYED_CONFIG)
  /\ hasDelay       = HasDelay(DELAYED_CONFIG)
  /\ latency_ms     = ConfigLatency(DELAYED_CONFIG)
  /\ outputPort     = FALSE
  /\ millis         = WrapBase
  /\ interrupts     = TRUE
  /\ pc             = "idle"
  /\ scheduleUpdate = FALSE
  /\ current        = 0
  /\ last           = "setConfig"
  /\ log            = << >>
  /\ lapped         = FALSE
  /\ applied        = NoSlot
  /\ sent           = 1
  /\ received       = 81
  /\ edges          = 0
  /\ stamped        = 0
  /\ loaded         = 0
  /\ discarded      = 0
  /\ lastEdge       = "none"

NextWrap ==
  \/ Tick
  \/ onevent
  \/ offevent
  \/ LoopBegin
  \/ LoopStamp
  \/ LoopLoadWriter
  \/ LoopTest
  \/ LoopLoadSlot
  \/ LoopDue
  \/ LoopOut

SpecWrap == InitWrap /\ [][NextWrap]_vars

(***************************************************************************)
(* The ring about to overflow.  After setup() and the byte '\' (flag 0x3C, *)
(* 1000 ms) the input has toggled once a millisecond, rising first, from   *)
(* clock 0 to clock FullBase - 1: slot i was written at clock i with       *)
(* target i + 1000, no slot is due yet, and loop() has found nothing to    *)
(* pop.  The input goes on, and the host may send one more byte.           *)
(***************************************************************************)
InitFull ==
  /\ scheduler      = [i \in 0 .. FullBase - 1 |->
                         i + ConfigLatency(SLOW_CONFIG)]
  /\ reader         = 0
  /\ writer         = FullBase
  /\ enabled        = ConfigEnabled(SLOW_CONFIG)
  /\ hasDelay       = HasDelay(SLOW_CONFIG)
  /\ latency_ms     = ConfigLatency(SLOW_CONFIG)
  /\ outputPort     = FALSE
  /\ millis         = FullBase
  /\ interrupts     = TRUE
  /\ pc             = "idle"
  /\ scheduleUpdate = FALSE
  /\ current        = FullBase
  /\ last           = "loop"
  /\ log            = [i \in 1 .. FullBase |->
                         [t |-> i - 1, rise |-> (i - 1) % 2 = 0]]
  /\ lapped         = FALSE
  /\ applied        = NoSlot
  /\ sent           = 1
  /\ received       = SLOW_CONFIG + SPACE
  /\ edges          = 0
  /\ stamped        = FullBase
  /\ loaded         = 0
  /\ discarded      = -1
  /\ lastEdge       = "fall"

\* the byte the host sends here: 'Q' (flag 0x31: enabled, 2 ms)
FullBytes == {DELAYED_CONFIG + SPACE}

NextFull ==
  \/ Tick
  \/ onevent
  \/ offevent
  \/ LoopBegin
  \/ LoopStamp
  \/ LoopLoadWriter
  \/ LoopTest
  \/ LoopLoadSlot
  \/ LoopDue
  \/ LoopOut
  \/ \E c \in FullBytes : serialEvent(c)

SpecFull == InitFull /\ [][NextFull]_vars

(***************************************************************************)
(* The writer at the end of the ring while the reader is at TornReader - 1.*)
(* After setup() and the byte '\' (flag 0x3C, 1000 ms) the input has       *)
(* toggled once a millisecond from clock 0, rising first, except that the  *)
(* falling edge of clock TornReader - 1 was a rising one (a second rising  *)
(* edge in a row, which took two slots); it stopped after the falling edge *)
(* that filled slot FullBase - 1.  The ring never held more than FullBase  *)
(* slots.  From clock 1000 on loop() has popped one slot a millisecond,    *)
(* the latest one, at clock TornBase, being the rising edge in slot        *)
(* TornReader - 2; the compensation pair of the second rising edge is      *)
(* next, due one millisecond later.                                        *)
(***************************************************************************)
\* the clock when slot j was written
EdgeTime(j) == IF j < TornReader THEN j ELSE j - 1

\* the polarity of the edge that wrote slot j
EdgeRise(j) == j % 2 = 0 \/ j = TornReader - 1

InitTorn ==
  /\ scheduler      = [j \in 0 .. FullBase - 1 |->
                         EdgeTime(j) + ConfigLatency(SLOW_CONFIG)]
  /\ reader         = TornReader - 1
  /\ writer         = FullBase
  /\ enabled        = ConfigEnabled(SLOW_CONFIG)
  /\ hasDelay       = HasDelay(SLOW_CONFIG)
  /\ latency_ms     = ConfigLatency(SLOW_CONFIG)
  /\ outputPort     = TRUE
  /\ millis         = TornBase
  /\ interrupts     = TRUE
  /\ pc             = "idle"
  /\ scheduleUpdate = FALSE
  /\ current        = TornBase
  /\ last           = "loop"
  /\ log            = [i \in 1 .. FullBase - (TornReader - 1) |->
                         [t    |-> EdgeTime(TornReader - 2 + i),
                          rise |-> EdgeRise(TornReader - 2 + i)]]
  /\ lapped         = FALSE
  /\ applied        = [t      |-> EdgeTime(TornReader - 2),
                        rise   |-> EdgeRise(TornReader - 2),
                        target |-> TornBase,
                        poll   |-> TornBase]
  /\ sent           = 1
  /\ received       = SLOW_CONFIG + SPACE
  /\ edges          = 0
  /\ stamped        = TornBase
  /\ loaded         = 0
  /\ discarded      = -1
  /\ lastEdge       = "fall"

NextTorn ==
  \/ Tick
  \/ onevent
  \/ offevent
  \/ LoopBegin
  \/ LoopStamp
  \/ LoopLoadWriter
  \/ LoopTest
  \/ LoopLoadSlot
  \/ LoopDue
  \/ LoopOut

SpecTorn == InitTorn /\ [][NextTorn]_vars

(***************************************************************************)
(* serialEvent() and setConfig() statement by statement.  serialEvent(c)   *)
(* above takes the section between cli() and sei() as one step; here every *)
(* write is a step of its own, the clock runs in between, and the edge     *)
(* handlers are held off by nothing but the interrupt flag.  The main      *)
(* context is inside serialEvent() while pc is one of ConfigSteps.         *)
(***************************************************************************)
ConfigSteps == {"decode", "enabled", "hasDelay", "latency", "reader",
                "writer", "turnoff", "sei"}

\* the flag character of the byte being processed: (char)c - ' ' as a char
FlagChar == AsChar(AsChar(received) - SPACE)

configFrame == UNCHANGED <<scheduler, millis, scheduleUpdate, current,
                           edges, stamped, loaded, sent, received>>

\* serialEvent entered without masking the interrupts
SerialBegin_noCli(c) ==
  /\ pc = "idle"
  /\ c >= 0 => sent < MaxBytes
  /\ sent' = IF c >= 0 THEN sent + 1 ELSE sent
  /\ received' = c
  /\ interrupts' = interrupts
  /\ last' = IF c < 0 THEN "nodata" ELSE "serialEvent"
  /\ pc'   = IF c < 0 THEN "idle" ELSE "decode"
  /\ UNCHANGED <<scheduler, reader, writer, enabled, hasDelay, latency_ms,
                 outputPort, millis, scheduleUpdate, current, log, lapped,
                 applied, edges, stamped, loaded, discarded, lastEdge>>

\* lines 220-224: cli(), Serial.read(), and the return when there is no byte
SerialBegin(c) ==
  /\ pc = "idle"
  /\ c >= 0 => sent < MaxBytes
  /\ sent' = IF c >= 0 THEN sent + 1 ELSE sent
  /\ received' = c
  /\ interrupts' = FALSE
  /\ last' = IF c < 0 THEN "nodata" ELSE "serialEvent"
  /\ pc'   = IF c < 0 THEN "idle" ELSE "decode"
  /\ UNCHANGED <<scheduler, reader, writer, enabled, hasDelay, latency_ms,
                 outputPort, millis, scheduleUpdate, current, log, lapped,
                 applied, edges, stamped, loaded, discarded, lastEdge>>

\* the test c >= 0 repeated in place of ch >= ' '
SerialDecode_anyChar ==
  /\ pc = "decode"
  /\ pc' = IF AsChar(received) >= 0 THEN "enabled" ELSE "sei"
  /\ last' = "serialEvent"
  /\ configFrame
  /\ UNCHANGED <<reader, writer, enabled, hasDelay, latency_ms, outputPort,
                 interrupts, log, lapped, applied, discarded, lastEdge>>

\* lines 226-227: the test ch >= ' '
SerialDecode ==
  /\ pc = "decode"
  /\ pc' = IF AsChar(received) >= SPACE THEN "enabled" ELSE "sei"
  /\ last' = "serialEvent"
  /\ configFrame
  /\ UNCHANGED <<reader, writer, enabled, hasDelay, latency_ms, outputPort,
                 interrupts, log, lapped, applied, discarded, lastEdge>>

\* line 234
ConfigEnable ==
  /\ pc = "enabled"
  /\ enabled' = ConfigEnabled(FlagChar)
  /\ pc' = "hasDelay"
  /\ last' = "serialEvent"
  /\ configFrame
  /\ UNCHANGED <<reader, writer, hasDelay, latency_ms, outputPort,
                 interrupts, log, lapped, applied, discarded, lastEdge>>

\* line 235
ConfigHasDelay ==
  /\ pc = "hasDelay"
  /\ hasDelay' = HasDelay(FlagChar)
  /\ pc' = "latency"
  /\ last' = "serialEvent"
  /\ configFrame
  /\ UNCHANGED <<reader, writer, enabled, latency_ms, outputPort,
                 interrupts, log, lapped, applied, discarded, lastEdge>>

\* lines 237-247
ConfigLatencyStep ==
  /\ pc = "latency"
  /\ latency_ms' = ConfigLatency(FlagChar)
  /\ pc' = "reader"
  /\ last' = "serialEvent"
  /\ configFrame
  /\ UNCHANGED <<reader, writer, enabled, hasDelay, outputPort,
                 interrupts, log, lapped, applied, discarded, lastEdge>>

\* line 250; the queue is given up with the first cursor that is reset
ConfigReader ==
  /\ pc = "reader"
  /\ reader' = 0
  /\ log'       = << >>
  /\ lapped'    = FALSE
  /\ applied'   = NoSlot
  /\ discarded' = Distance(reader, writer)
  /\ lastEdge'  = "none"
  /\ pc' = "writer"
  /\ last' = "serialEvent"
  /\ configFrame
  /\ UNCHANGED <<writer, enabled, hasDelay, latency_ms, outputPort,
                 interrupts>>

\* line 251
ConfigWriter ==
  /\ pc = "writer"
  /\ writer' = 0
  /\ pc' = "turnoff"
  /\ last' = "serialEvent"
  /\ configFrame
  /\ UNCHANGED <<reader, enabled, hasDelay, latency_ms, outputPort,
                 interrupts, log, lapped, applied, discarded, lastEdge>>

\* line 254
ConfigTurnOff ==
  /\ pc = "turnoff"
  /\ TurnOff
  /\ pc' = "sei"
  /\ last' = "serialEvent"
  /\ configFrame
  /\ UNCHANGED <<reader, writer, enabled, hasDelay, latency_ms,
                 interrupts, log, lapped, applied, discarded, lastEdge>>

\* line 230: sei() and the return
SerialEnd ==
  /\ pc = "sei"
  /\ interrupts' = TRUE
  /\ pc' = "idle"
  /\ last' = IF AsChar(received) >= SPACE THEN "setConfig" ELSE "ignored"
  /\ configFrame
  /\ UNCHANGED <<reader, writer, enabled, hasDelay, latency_ms, outputPort,
                 log, lapped, applied, discarded, lastEdge>>

\* the bytes the host sends here: the least and the greatest byte below
\* ' '; ' ' and 'Q' (flags 0x00 and 0x31); and one above 0x7F
ConfigBytes == {0, 31, 32, 81, 200}

NextConfig ==
  \/ Tick
  \/ onevent
  \/ offevent
  \/ LoopBegin
  \/ LoopStamp
  \/ LoopLoadWriter
  \/ LoopTest
  \/ LoopLoadSlot
  \/ LoopDue
  \/ LoopOut
  \/ \E c \in ConfigBytes \cup {-1} : SerialBegin(c)
  \/ SerialDecode
  \/ ConfigEnable
  \/ ConfigHasDelay
  \/ ConfigLatencyStep
  \/ ConfigReader
  \/ ConfigWriter
  \/ ConfigTurnOff
  \/ SerialEnd

SpecConfig == InitDelayed /\ [][NextConfig]_vars

(***************************************************************************)
(* The configuration decoder on its own: after setup() the host sends the  *)
(* byte of every flag value 0 .. 63, in any order.                         *)
(***************************************************************************)
FlagBytes == SPACE .. SPACE + 63

NextDecode == \E c \in FlagBytes : serialEvent(c)

SpecDecode == Init /\ [][NextDecode]_vars

(***************************************************************************)
(* Properties.                                                             *)
(***************************************************************************)
Delayed == enabled /\ hasDelay
Direct  == enabled /\ ~hasDelay
Zeros   == NoStamps

\* the step is a call of serialEvent() that reads a byte of the set S
Reads(S)  == sent' # sent /\ received' \in S
\* the step is a call of onevent() / offevent() / either that wrote a slot
Rose      == last' = "onevent"  /\ edges' # edges
Fell      == last' = "offevent" /\ edges' # edges

\* C2 as stated: after startup and after serialEvent() has processed any
\* byte c >= 0x20, reader = 0, writer = 0 and the output is deasserted.
C2_AnyByteResets ==
  /\ (reader = 0 /\ writer = 0 /\ ~outputPort)
  /\ [][Reads(SPACE .. 255)
          => (reader' = 0 /\ writer' = 0 /\ ~outputPort')]_vars

\* C2 amended: after startup and after serialEvent() has processed a byte c
\* with 0x20 <= c <= 0x7F, reader = 0, writer = 0 and the output is
\* deasserted, whatever the cursors, the queue and the output were before.
C2_ConfigByteResets ==
  /\ (reader = 0 /\ writer = 0 /\ ~outputPort)
  /\ [][Reads(SPACE .. 127)
          => (reader' = 0 /\ writer' = 0 /\ ~outputPort')]_vars

\* a configuration byte was processed while slots were pending: the
\* cursors are back at 0 and the stale timestamps are still in the queue
C2_Witness ==
  /\ last = "setConfig"
  /\ discarded > 0
  /\ scheduler # Zeros
  /\ reader = 0 /\ writer = 0 /\ ~outputPort

\* C4: in delayed mode a handler call advances writer by 1 or 2 slots and
\* leaves it odd after onevent() and even after offevent(), whatever the
\* order of the calls.
C4_Compensation ==
  [][Delayed =>
      /\ (Rose \/ Fell)
            => (writer' - writer + BUFFER_SIZE) % BUFFER_SIZE \in {1, 2}
      /\ Rose => writer' % 2 = 1
      /\ Fell => writer' % 2 = 0]_vars

\* three rising edges in a row: the second and the third were compensated
C4_Witness ==
  /\ Delayed
  /\ last = "onevent"
  /\ Len(log) = 5
  /\ \A i \in 1 .. 5 : log[i].rise
  /\ writer = 5

\* C7: reader and writer stay within 0 .. BUFFER_SIZE - 1.
C7_CursorsInBounds ==
  /\ reader \in 0 .. BUFFER_SIZE - 1
  /\ writer \in 0 .. BUFFER_SIZE - 1

\* more than BUFFER_SIZE slots written and none popped
C7_Witness ==
  /\ lapped
  /\ Len(log) > BUFFER_SIZE
  /\ reader = 0

\* C9: while enabled is false, a step of onevent(), offevent() or loop()
\* changes neither the output, nor the cursors, nor the queue.
C9_DisabledIsInert ==
  [][(~enabled /\ last' \in {"onevent", "offevent", "loop"})
      => UNCHANGED <<outputPort, reader, writer, scheduler>>]_vars

\* a rising edge was handled while the device was disabled with a delay set
C9_Witness ==
  /\ ~enabled
  /\ hasDelay
  /\ last = "onevent"
  /\ ~outputPort /\ writer = 0

\* C10: in direct mode the output is asserted after onevent() and
\* deasserted after offevent(), and onevent(), offevent() and loop() leave
\* the cursors and the queue alone.
C10_DirectMirrors ==
  [][Direct =>
      /\ last' = "onevent"  => outputPort'
      /\ last' = "offevent" => ~outputPort'
      /\ last' \in {"onevent", "offevent", "loop"}
            => UNCHANGED <<reader, writer, scheduler>>]_vars

\* direct mode entered with stale timestamps in the queue, a rising edge
\* handled
C10_Witness ==
  /\ Direct
  /\ last = "onevent"
  /\ outputPort
  /\ scheduler # Zeros

NoWrap == millis + latency_ms < UINT_MOD
Slot(i) == At(scheduler, (reader + i - 1) % BUFFER_SIZE)

\* C1 as stated: in delayed mode, with the ring never full and the clock
\* away from its wraparound, the ring holds the pending edges in arrival
\* order with target = edge time + latency_ms; a slot is popped only by a
\* poll whose sampled time is >= its edge time + latency_ms and oldest
\* first; a pass leaves no edge behind that is due at its sampled time; and
\* the output written by the pass is the polarity of the latest edge it
\* popped.
C1_DelayedFifo ==
  (Delayed /\ NoWrap /\ ~lapped) =>
    /\ Len(log) = Distance(reader, writer)
    /\ \A i \in 1 .. Len(log) : Slot(i) = log[i].t + latency_ms
    /\ applied.t >= 0 =>
         /\ applied.t + latency_ms <= applied.poll
         /\ \A i \in 1 .. Len(log) : applied.t <= log[i].t
         /\ pc = "idle" => outputPort = applied.rise
    /\ pc = "out" =>
         \A i \in 1 .. Len(log) : log[i].t + latency_ms > stamped

\* C3: from the processing of a configuration byte until an edge is
\* handled under the new configuration, the output stays deasserted.
C3_NoStaleTransition == discarded >= 0 => ~outputPort

\* slots were pending when the byte was processed, loop() has run under the
\* new delayed configuration and the clock has passed every stale target
C3_Witness ==
  /\ discarded > 0
  /\ Delayed
  /\ last = "loop"
  /\ scheduler # Zeros
  /\ \A i \in DOMAIN scheduler : scheduler[i] <= millis
  /\ ~outputPort

\* C5: in delayed mode without overflow, once the edges have stopped the
\* queue drains and the output settles at the polarity of the latest edge
\* handled.
C5_Settled ==
  /\ reader = writer
  /\ lastEdge = "rise" => outputPort
  /\ lastEdge = "fall" => ~outputPort

C5_Settles == <>[](lapped \/ C5_Settled)

\* two rising edges in a row, the second one compensated, all three slots
\* popped and the output asserted
C5_Witness ==
  /\ ~lapped
  /\ edges = 2
  /\ lastEdge = "rise"
  /\ reader = 3 /\ writer = 3
  /\ pc = "idle"
  /\ outputPort

\* C6 as stated: a slot is not popped before latency_ms has elapsed on the
\* clock since its edge, and a pass leaves no edge behind whose latency_ms
\* has elapsed, also when the 16-bit timestamp wraps in between.
C6_WrapSafe ==
  (Delayed /\ ~lapped) =>
    /\ applied.t >= 0 => applied.t + latency_ms <= applied.poll
    /\ pc = "out" =>
         \A i \in 1 .. Len(log) : log[i].t + latency_ms > stamped

\* C8 as stated: once more than BUFFER_SIZE slots are written and none
\* popped, only overwritten slots are lost (one more at most, for the slot
\* that tells a full ring from an empty one).
C8_OnlyOverwrittenLost ==
  Len(log) > BUFFER_SIZE =>
    Len(log) - Distance(reader, writer) <= (Len(log) - BUFFER_SIZE) + 1

\* C8 amended: of M slots written and not consumed, the slots between
\* reader and writer are the M mod BUFFER_SIZE most recent ones, in arrival
\* order and with their own targets; and a slot that is popped carries the
\* target of the edge it came from.
C8_RingHoldsNewest ==
  LET k == Distance(reader, writer)
  IN  /\ k = Len(log) % BUFFER_SIZE
      /\ \A i \in 1 .. k :
            Slot(i) = (log[Len(log) - k + i].t + latency_ms) % UINT_MOD
      /\ applied.t >= 0
            => applied.target = (applied.t + latency_ms) % UINT_MOD

\* BUFFER_SIZE + 1 slots written and none popped: the ring shows the newest
\* one only, and the slots before it that were not overwritten sit in the
\* queue without being pending
C8_Witness ==
  /\ Delayed /\ lapped
  /\ Len(log) = BUFFER_SIZE + 1
  /\ reader = 0 /\ writer = 1
  /\ At(scheduler, 0) = (log[Len(log)].t + latency_ms) % UINT_MOD
  /\ At(scheduler, 0) # At(scheduler, 1)

\* the three configuration fields are the decoding of one flag character
DecodedConfigs ==
  {<<ConfigEnabled(f), HasDelay(f), ConfigLatency(f)>> : f \in 0 .. 95}
WholeConfig == <<enabled, hasDelay, latency_ms>> \in DecodedConfigs

\* C11: from the first to the last write of serialEvent() / setConfig() the
\* interrupts are masked and the only steps taken are those of
\* serialEvent() itself (and the clock): no edge handler and no step of
\* loop() runs in between, and whenever they can run the configuration is
\* the decoding of a single byte.
C11_ConfigAtomic ==
  /\ [](pc \in ConfigSteps => ~interrupts)
  /\ [](pc \notin ConfigSteps => WholeConfig)
  /\ [][(pc \in ConfigSteps) =>
          (last' = "serialEvent"
             \/ (pc' = "idle" /\ last' \in {"setConfig", "ignored"}))]_vars

\* the byte ' ' is being processed in delayed mode with a slot pending:
\* enabled and hasDelay are already those of flag 0x00, latency_ms and the
\* cursors are still the old ones, and the clock has moved on since the
\* edge was stamped
C11_Witness ==
  /\ pc = "latency"
  /\ received = 32
  /\ ~enabled /\ ~hasDelay /\ latency_ms = 2
  /\ ~WholeConfig
  /\ reader # writer
  /\ millis > log[Len(log)].t
  /\ ~interrupts

\* C12 as stated: every comparison of reader and writer made by loop(), the
\* one that decides scheduleUpdate and every one of the while loop, is made
\* with the interrupts masked, so that no handler changes writer between
\* two comparisons of a pass.
C12_ComparesMasked ==
  /\ [](pc \in {"test", "compare"} => ~interrupts)
  /\ [][(pc \in {"stamp", "test", "compare"}) => writer' = writer]_vars

\* the flag value of the byte read by the latest call of serialEvent(), and
\* its fields by arithmetic on the bit positions
Flag     == received - SPACE
FlagLIN  == Flag % 16
FlagFEXP == (Flag \div 16) % 2 = 1
FlagEXP  == (Flag \div 4) % 4
FlagFRAC == Flag % 4

\* C13: for every flag value 0 .. 63, enabled is bit 5, hasDelay is false
\* exactly when bits 0-3 are all zero, and then latency_ms is 0 whatever
\* the FEXP bit is.
C13_DecodeModes ==
  (last = "setConfig" /\ Flag \in 0 .. 63) =>
    /\ enabled = ((Flag \div 32) % 2 = 1)
    /\ hasDelay = (FlagLIN # 0)
    /\ ~hasDelay => latency_ms = 0

\* flag 0x10: FEXP set and bits 0-3 zero, after a flag with a delay
C13_Witness ==
  /\ last = "setConfig"
  /\ sent = 2
  /\ Flag = 16
  /\ ~enabled /\ ~hasDelay /\ latency_ms = 0

\* C14: for every flag value 0 .. 63 with hasDelay, latency_ms is
\* 20 * (f & 0xF) when FEXP = 0, and 10^EXP * 2^FRAC when FEXP = 1.
C14_DecodeLatency ==
  (last = "setConfig" /\ Flag \in 0 .. 63 /\ hasDelay) =>
    /\ ~FlagFEXP => latency_ms = 20 * FlagLIN
    /\ FlagFEXP  => latency_ms = (10 ^ FlagEXP) * (2 ^ FlagFRAC)

\* flag 0x3F: exponential mode, EXP = 3, FRAC = 3
C14_Witness ==
  /\ last = "setConfig"
  /\ Flag = 63
  /\ enabled /\ hasDelay /\ latency_ms = 8000

\* C15 as stated in the file header: in exponential mode with EXP > 0 the
\* delay is (2 ^ FRAC + 1) * (10 ^ EXP) milliseconds.
C15_HeaderFormula ==
  (last = "setConfig" /\ Flag \in 0 .. 63 /\ FlagFEXP /\ FlagEXP > 0) =>
    latency_ms = ((2 ^ FlagFRAC) + 1) * (10 ^ FlagEXP)

\* C16: a byte below 0x20 is ignored: from the call of serialEvent() that
\* reads it to its return, the configuration, the cursors, the queue and
\* the output are left as they were, and when it returns the interrupts
\* are enabled and the main context is back between two calls of loop().
C16_LowByteIgnored ==
  /\ [][((sent' # sent /\ received' \in 0 .. SPACE - 1)
            \/ (received \in 0 .. SPACE - 1 /\ pc \in ConfigSteps))
          => UNCHANGED <<enabled, hasDelay, latency_ms, reader, writer,
                         scheduler, outputPort>>]_vars
  /\ [][(received \in 0 .. SPACE - 1 /\ pc \in ConfigSteps)
          => pc' \in {pc, "sei", "idle"}]_vars
  /\ [](last = "ignored" => (interrupts /\ pc = "idle"))

\* the byte 0x1F was read and ignored in delayed mode while the output was
\* asserted and a slot was pending
C16_Witness ==
  /\ last = "ignored"
  /\ received = 31
  /\ Delayed
  /\ outputPort
  /\ reader # writer
  /\ interrupts /\ pc = "idle"

\* C17 as stated: in delayed mode without overflow and without clock
\* wraparound, the target times between reader and writer never decrease
\* in ring order, and when the while loop of a pass has ended every slot
\* still between reader and writer has a target time greater than the time
\* the pass sampled.
C17_NoDueLeftBehind ==
  (Delayed /\ NoWrap /\ ~lapped) =>
    /\ \A i \in 1 .. Distance(reader, writer) - 1 : Slot(i) <= Slot(i + 1)
    /\ pc = "out" =>
          \A i \in 1 .. Distance(reader, writer) : Slot(i) > current

\* C18: in delayed mode, unless loop() has advanced reader in the current
\* pass and not yet written the output, the output is asserted exactly
\* when reader is odd.
C18_OutputIsReaderParity ==
  (Delayed /\ ~(pc \in {"test", "compare", "due", "pop", "out"}
                 /\ applied.t >= 0)) =>
    (outputPort <=> reader % 2 = 1)

\* the output is asserted with reader = 1, and a falling edge has just
\* been handled that is not applied yet
C18_Witness ==
  /\ Delayed
  /\ pc = "idle"
  /\ last = "offevent"
  /\ reader = 1 /\ writer = 2
  /\ outputPort

\* C19 as stated: in delayed mode without overflow a pass of loop() never
\* stops between the two slots of a compensation pair, and so the output
\* is deasserted by loop() only when the latest slot popped comes from a
\* falling edge and asserted only when it comes from a rising edge: a
\* rising edge after a rising edge never takes the output down, a falling
\* edge after a falling edge or first after a reset never brings it up.
C19_NoGlitch ==
  /\ []((Delayed /\ ~lapped /\ pc = "out" /\ applied.t >= 0)
          => (applied.rise <=> reader % 2 = 1))
  /\ [][(Delayed /\ ~lapped /\ sent' = sent) =>
          /\ (outputPort /\ ~outputPort')
                => (applied.t >= 0 /\ ~applied.rise)
          /\ (~outputPort /\ outputPort')
                => (applied.t >= 0 /\ applied.rise)]_vars

\* C20 as stated: whenever serialEvent() has returned, on the path of a
\* byte >= 0x20, of a byte < 0x20 and of no byte (read returns a negative
\* value) alike, the interrupts are enabled.
C20_ReturnsUnmasked ==
  (pc = "idle" /\ last \in {"setConfig", "ignored", "nodata"}) => interrupts

TypeOK ==
  /\ DOMAIN scheduler \subseteq 0 .. BUFFER_SIZE - 1
  /\ \A i \in DOMAIN scheduler : scheduler[i] \in 1 .. UINT_MOD - 1
  /\ reader \in Int /\ writer \in Int
  /\ enabled \in BOOLEAN /\ hasDelay \in BOOLEAN
  /\ latency_ms \in 0 .. UINT_MOD - 1
  /\ outputPort \in BOOLEAN
  /\ millis \in Nat
  /\ interrupts \in BOOLEAN
  /\ received \in {-1} \cup InputBytes \cup ConfigBytes \cup FlagBytes
                   \cup {SLOW_CONFIG + SPACE}
  /\ pc \in {"idle", "stamp", "test", "compare", "due", "pop", "out"}
           \cup ConfigSteps
  /\ loaded \in 0 .. UINT_MOD - 1
  /\ current \in 0 .. UINT_MOD - 1

====
